---- MODULE Spec2Model ----
(***************************************************************************)
(* A model of PlutoRCON (package rcon): the UDP RCON client's command      *)
(* executor (SendCommand, GetInfo, GetStatus, Close), its response         *)
(* accumulator (readResponse), the text normalisation utilities and the    *)
(* key/value and dvar parsers.                                             *)
(*                                                                         *)
(* Text is modelled byte by byte: a string is a sequence of one-character  *)
(* strings, the byte 0xFF being written FF.                                *)
(***************************************************************************)
EXTENDS Naturals, Integers, Sequences, FiniteSets, TLC

----------------------------------------------------------------------------
(* Bytes and string helpers (Go package strings)                           *)

FF == "<FF>"
NL == "\n"
CR == "\r"
TAB == "\t"
SP == " "
BSL == "\\"
QUOTE == "\""
CARET == "^"

Sentinel == <<FF, FF, FF, FF>>
PrintBanner == <<"p", "r", "i", "n", "t", NL>>
NlSentinel == <<NL>> \o Sentinel
NlPrintNl == <<NL>> \o PrintBanner

Digits == {"0", "1", "2", "3", "4", "5", "6", "7", "8", "9"}
Lower == {"a", "b", "c", "d", "e", "f", "g", "h", "i", "j", "k", "l", "m",
          "n", "o", "p", "q", "r", "s", "t", "u", "v", "w", "x", "y", "z"}
Upper == {"A", "B", "C", "D", "E", "F", "G", "H", "I", "J", "K", "L", "M",
          "N", "O", "P", "Q", "R", "S", "T", "U", "V", "W", "X", "Y", "Z"}
UpperToLower ==
    [ch \in Upper |->
        CASE ch = "A" -> "a" [] ch = "B" -> "b" [] ch = "C" -> "c" [] ch = "D" -> "d"
          [] ch = "E" -> "e" [] ch = "F" -> "f" [] ch = "G" -> "g" [] ch = "H" -> "h"
          [] ch = "I" -> "i" [] ch = "J" -> "j" [] ch = "K" -> "k" [] ch = "L" -> "l"
          [] ch = "M" -> "m" [] ch = "N" -> "n" [] ch = "O" -> "o" [] ch = "P" -> "p"
          [] ch = "Q" -> "q" [] ch = "R" -> "r" [] ch = "S" -> "s" [] ch = "T" -> "t"
          [] ch = "U" -> "u" [] ch = "V" -> "v" [] ch = "W" -> "w" [] ch = "X" -> "x"
          [] ch = "Y" -> "y" [] ch = "Z" -> "z"]

\* unicode.IsSpace restricted to single bytes
IsSpace(ch) == ch \in {SP, TAB, NL, CR, "\f"}

LowerCh(ch) == IF ch \in Upper THEN UpperToLower[ch] ELSE ch

\* strings.ToLower
ToLower(s) == [k \in 1..Len(s) |-> LowerCh(s[k])]

\* strings.EqualFold (ASCII)
EqualFold(s, t) == ToLower(s) = ToLower(t)

\* strings.HasPrefix
HasPrefix(s, p) == Len(s) >= Len(p) /\ SubSeq(s, 1, Len(p)) = p

\* s[n:]
Drop(s, n) == SubSeq(s, n + 1, Len(s))

\* strings.Contains
Contains(s, p) == \E k \in 0..(Len(s) - Len(p)) : SubSeq(s, k + 1, k + Len(p)) = p

\* strings.ReplaceAll: left to right, non-overlapping
RECURSIVE ReplaceAll(_, _, _)
ReplaceAll(s, old, new) ==
    IF Len(s) < Len(old) THEN s
    ELSE IF HasPrefix(s, old) THEN new \o ReplaceAll(Drop(s, Len(old)), old, new)
    ELSE <<s[1]>> \o ReplaceAll(Tail(s), old, new)

RECURSIVE TrimLeft(_)
TrimLeft(s) == IF s # <<>> /\ IsSpace(s[1]) THEN TrimLeft(Tail(s)) ELSE s

RECURSIVE TrimRight(_)
TrimRight(s) ==
    IF s # <<>> /\ IsSpace(s[Len(s)]) THEN TrimRight(SubSeq(s, 1, Len(s) - 1)) ELSE s

\* strings.TrimSpace
TrimSpace(s) == TrimRight(TrimLeft(s))

\* strings.Split(s, sep) for a one-byte separator: always at least one element
RECURSIVE SplitAcc(_, _, _)
SplitAcc(s, sep, cur) ==
    IF s = <<>> THEN <<cur>>
    ELSE IF s[1] = sep THEN <<cur>> \o SplitAcc(Tail(s), sep, <<>>)
    ELSE SplitAcc(Tail(s), sep, Append(cur, s[1]))

Split(s, sep) == SplitAcc(s, sep, <<>>)

\* concatenation of a sequence of strings
RECURSIVE Concat(_)
Concat(ss) == IF ss = <<>> THEN <<>> ELSE Head(ss) \o Concat(Tail(ss))

----------------------------------------------------------------------------
(* Text utilities of rcon.go                                               *)

IsAlnum(ch) == ch \in Digits \cup Lower \cup Upper

\* stripColorCodes: regexp \^[0-9A-Za-z] replaced by "", leftmost, non-overlapping
RECURSIVE stripColorCodes(_)
stripColorCodes(s) ==
    IF s = <<>> THEN s
    ELSE IF Len(s) >= 2 /\ s[1] = CARET /\ IsAlnum(s[2])
         THEN stripColorCodes(Drop(s, 2))
    ELSE <<s[1]>> \o stripColorCodes(Tail(s))

DigitSeq == <<"0", "1", "2", "3", "4", "5", "6", "7", "8", "9">>
DigitVal(ch) == (CHOOSE n \in 1..10 : DigitSeq[n] = ch) - 1

RECURSIVE DecVal(_, _)
DecVal(s, acc) == IF s = <<>> THEN acc ELSE DecVal(Tail(s), acc * 10 + DigitVal(s[1]))

\* strconv.Atoi / ParseInt(v, 10, 64) with the error dropped: optional sign, then
\* one or more decimal digits; anything else yields 0 (inputs short of overflow)
ParseDec(s) ==
    LET signed == s # <<>> /\ s[1] \in {"+", "-"}
        body == IF signed THEN Tail(s) ELSE s
        ok == body # <<>> /\ \A k \in 1..Len(body) : body[k] \in Digits
    IN  IF ~ok THEN 0
        ELSE IF signed /\ s[1] = "-" THEN 0 - DecVal(body, 0) ELSE DecVal(body, 0)

atoi(s) == ParseDec(s)

boolSafe(s) ==
    LET v == TrimSpace(s) IN v = <<"1">> \/ EqualFold(v, <<"t", "r", "u", "e">>)

\* the prefix-stripping loop of normalizeRCON
RECURSIVE StripLeading(_)
StripLeading(s) ==
    LET s1 == IF HasPrefix(s, Sentinel) THEN Drop(s, 4) ELSE s
        s2 == IF HasPrefix(s1, PrintBanner) THEN Drop(s1, 6) ELSE s1
    IN  IF s2 = s THEN s ELSE StripLeading(s2)

normalizeRCON(s) ==
    IF s = <<>> THEN s
    ELSE LET a == ReplaceAll(s, <<CR, NL>>, <<NL>>)
             b == StripLeading(a)
             c == ReplaceAll(b, NlSentinel, <<NL>>)
             d == ReplaceAll(c, NlPrintNl, <<NL>>)
         IN  TrimSpace(d)

RECURSIVE TrimAll(_)
TrimAll(ps) == IF ps = <<>> THEN <<>> ELSE <<TrimSpace(Head(ps))>> \o TrimAll(Tail(ps))

NonEmptyText(p) == p # <<>>

splitNonEmptyLines(s) ==
    IF s = <<>> THEN <<>>
    ELSE SelectSeq(TrimAll(Split(s, NL)), NonEmptyText)

\* lines 89-94 of readResponse: the accumulated buffer as lines
LinesOfUnnormalized(buffer) == splitNonEmptyLines(buffer)
LinesOf(buffer) ==
    LET raw == normalizeRCON(buffer)
    IN  IF raw = <<>> THEN <<>> ELSE splitNonEmptyLines(raw)

----------------------------------------------------------------------------
(* Program constants (durations in milliseconds)                           *)

readBufferSize == 4096
defaultReadTimeout == 1000
defaultReadExtension == 350
statusReadExtension == 1000
backoffUnit == 150
defaultRetries == 3

(* Bounds of the model                                                     *)

\* calls started plus datagrams sent by the server in one behaviour
MaxLoad == 3
\* transient socket errors (other than those of a closed connection)
MaxFaults == 1
\* the step by which time advances while a caller is blocked
Tick == 300

Callers == {"c1", "c2"}
NoCaller == "none"

Nil == "nil"
ErrTimeout == "i/o timeout"
ErrClosed == "use of closed network connection"
ErrRefused == "connection refused"
ErrNotEstablished == "RCON connection is not established"
ErrNoResponse == "no response received for command"
ErrEmptyResponse == "empty response"

\* net.Error.Timeout()
IsTimeoutAny(err) == err # Nil
IsTimeout(err) == err = ErrTimeout

Min(a, b) == IF a < b THEN a ELSE b

VARIABLES
    Conn,     \* rc.Conn: "nil", "open" or "closed" (the socket behind the pointer)
    mu,       \* rc.mu: the caller holding the mutex, or NoCaller
    rxq,      \* the socket's receive queue: datagrams [pl, of] not yet read
    reqs,     \* ids of the calls whose request packet reached the server
    nsent,    \* datagrams sent by the server so far
    nfault,   \* transient socket errors so far
    ncall,    \* calls started so far; the id of the latest call
    pc,       \* per caller: "idle", "lock", "write", "read", "sleep", "done"
    call,     \* per caller: the operation and its commandSettings
    loc,      \* per caller: locals i, lerr, buf and the running timer
    gh,       \* per caller: history of the current call (not program state)
    ret       \* per caller: what the call returned

execVars == <<Conn, mu, rxq, reqs, nsent, nfault, ncall, pc, call, loc, gh, ret>>

\* The parsers and the normalisation are pure functions of a response; each is
\* exercised by a specification of its own, on inputs built up step by step.
VARIABLES
    nbuf,     \* normalisation: the accumulation buffer (buf of readResponse)
    nparts,   \* normalisation: the datagrams written to nbuf (history)
    nout,     \* normalisation: the normalised text and its lines
    kelems,   \* key/value block: the elements between backslashes (history)
    kblock,   \* key/value block: the block line as the server sent it
    kout,     \* key/value block: the decoded map and the typed result
    dpc,      \* GetDvar: "idle", "send", "sleep" or "done"
    dname,    \* GetDvar: the requested dvar
    dloc,     \* GetDvar: locals attempt and lastClean
    dresps,   \* GetDvar: the responses SendCommand returned (history)
    dret,     \* GetDvar: what the call returned
    setValue, \* SetDvar: the value argument, built up character by character
    setOut,   \* SetDvar: the error returned and the command and argument sent
    rowToks,  \* Status: the tokens of the player row the server sends (history)
    statusOut \* Status: the decoded ServerStatus

normVars == <<nbuf, nparts, nout>>
kvVars == <<kelems, kblock, kout>>
dvarVars == <<dpc, dname, dloc, dresps, dret>>
setVars == <<setValue, setOut>>
statusVars == <<rowToks, statusOut>>
parserVars == <<normVars, kvVars, dvarVars, setVars, statusVars>>
vars == <<execVars, parserVars>>

----------------------------------------------------------------------------
(* Command settings (models.go, rcon.go)                                   *)

\* the SendCommand configurations the package produces: Say/Tell/Kick/SetDvar
\* (no option), GetDvar (requireResponse), Status (requireResponse and a 1 s
\* read extension); and the two query operations
CmdOps == {"Say", "GetDvar", "Status"}
QueryOps == {"GetInfo", "GetStatus"}
Ops == CmdOps \cup QueryOps

\* rc.Timeout as New sets it
Timeout == defaultReadTimeout

timeoutOrDefault == IF Timeout <= 0 THEN defaultReadTimeout ELSE Timeout

DefaultSettings ==
    [retries |-> defaultRetries, readTimeout |-> timeoutOrDefault,
     readExtension |-> defaultReadExtension, requireSuccess |-> FALSE]

requireResponse(s) ==
    [s EXCEPT !.requireSuccess = TRUE, !.retries = IF s.retries = 0 THEN 2 ELSE s.retries]

withReadExtension(s, d) == [s EXCEPT !.readExtension = IF d < 0 THEN 0 ELSE d]

SettingsOf(op) ==
    CASE op = "Say" -> DefaultSettings
      [] op = "GetDvar" -> requireResponse(DefaultSettings)
      [] op = "Status" ->
            withReadExtension(requireResponse(DefaultSettings), statusReadExtension)
      [] OTHER -> DefaultSettings

\* readResponse's clamping of its two parameters
EffTimeout(t) == IF t <= 0 THEN defaultReadTimeout ELSE t
EffExtension(e) == IF e < 0 THEN 0 ELSE e

\* time.Duration(i+1) * 150 * time.Millisecond
BackoffConstant(i) == backoffUnit
Backoff(i) == (i + 1) * backoffUnit

NoCall == [op |-> "none", id |-> 0, s |-> DefaultSettings]
NoLoc == [i |-> 0, lerr |-> Nil, buf |-> <<>>, timer |-> 0]
\* what readResponse returned in the current attempt, once it has returned
NoRR == [set |-> FALSE, res |-> <<>>, err |-> Nil]
RR(res, err) == [set |-> TRUE, res |-> res, err |-> err]
NoGh ==
    [writes |-> 0, wfails |-> 0, sleeps |-> <<>>, windows |-> 0, seen |-> 0,
     ioerr |-> FALSE, closed |-> FALSE, cyc |-> 0, arr |-> <<>>, acc |-> <<>>, ended |-> FALSE,
     rr |-> NoRR, lasterr |-> Nil]
NoRet == [res |-> <<>>, err |-> Nil, from |-> {}]

InitExec ==
    /\ Conn = "open"
    /\ mu = NoCaller
    /\ rxq = <<>>
    /\ reqs = {}
    /\ nsent = 0
    /\ nfault = 0
    /\ ncall = 0
    /\ pc = [c \in Callers |-> "idle"]
    /\ call = [c \in Callers |-> NoCall]
    /\ loc = [c \in Callers |-> NoLoc]
    /\ gh = [c \in Callers |-> NoGh]
    /\ ret = [c \in Callers |-> NoRet]

\* the payloads of a sequence of datagrams
RECURSIVE Payloads(_)
Payloads(ds) == IF ds = <<>> THEN <<>> ELSE <<Head(ds).pl>> \o Payloads(Tail(ds))

\* buf.String()
Bytes(ds) == Concat(Payloads(ds))

\* the datagrams of a queue as arrivals at cycle time t
Arrivals(ds, t) == [k \in 1..Len(ds) |-> [pl |-> ds[k].pl, t |-> t]]

----------------------------------------------------------------------------
(* The ways a step of a call continues                                     *)

\* the call returns (res, err); the deferred rc.mu.Unlock() runs if the lock
\* was taken
Returned(c, res, err, from, l, g, locked) ==
    /\ pc' = [pc EXCEPT ![c] = "done"]
    /\ ret' = [ret EXCEPT ![c] = [res |-> res, err |-> err, from |-> from]]
    /\ loc' = [loc EXCEPT ![c] = [l EXCEPT !.timer = 0]]
    /\ gh' = [gh EXCEPT ![c] = g]
    /\ mu' = IF locked THEN NoCaller ELSE mu

\* (a variant that hides the remembered error of a fire-and-forget command)
FinishForgets(c, l, g) ==
    IF call[c].s.requireSuccess
    THEN IF l.lerr # Nil
         THEN Returned(c, <<>>, l.lerr, {}, l, g, TRUE)
         ELSE Returned(c, <<>>, ErrNoResponse, {}, l, g, TRUE)
    ELSE Returned(c, <<>>, Nil, {}, l, g, TRUE)

\* (a variant that always reports the generic failure)
FinishGeneric(c, l, g) ==
    IF call[c].s.requireSuccess
    THEN Returned(c, <<>>, ErrNoResponse, {}, l, g, TRUE)
    ELSE Returned(c, <<>>, l.lerr, {}, l, g, TRUE)

\* SendCommand lines 75-82: the attempts are used up
Finish(c, l, g) ==
    IF call[c].s.requireSuccess
    THEN IF l.lerr # Nil
         THEN Returned(c, <<>>, l.lerr, {}, l, g, TRUE)
         ELSE Returned(c, <<>>, ErrNoResponse, {}, l, g, TRUE)
    ELSE Returned(c, <<>>, l.lerr, {}, l, g, TRUE)

\* SendCommand lines 45-47 and 70-72: sleep unless this was the last attempt,
\* then the loop's i++ and its test
BackoffOrFinish(c, l, g) ==
    IF l.i < call[c].s.retries
    THEN /\ pc' = [pc EXCEPT ![c] = "sleep"]
         /\ loc' = [loc EXCEPT ![c] = [l EXCEPT !.timer = Backoff(l.i)]]
         /\ gh' = [gh EXCEPT ![c] = [g EXCEPT !.sleeps = Append(@, Backoff(l.i))]]
         /\ UNCHANGED <<ret, mu>>
    ELSE Finish(c, [l EXCEPT !.i = l.i + 1], g)

\* (a variant that retries a timeout whatever requireSuccess is)
AfterReadCmdRetryTimeout(c, res, err, from, l, g) ==
    IF Len(res) > 0 THEN Returned(c, res, Nil, from, l, g, TRUE)
    ELSE IF err = Nil
         THEN IF ~call[c].s.requireSuccess
              THEN Returned(c, res, Nil, {}, l, g, TRUE)
              ELSE BackoffOrFinish(c, l, g)
    ELSE IF IsTimeout(err)
         THEN BackoffOrFinish(c, [l EXCEPT !.lerr = err], g)
    ELSE Returned(c, <<>>, err, {}, l, g, TRUE)

\* (a variant that returns the lines together with the remembered error)
AfterReadCmdKeepsError(c, res, err, from, l, g) ==
    IF Len(res) > 0 THEN Returned(c, res, l.lerr, from, l, g, TRUE)
    ELSE IF err = Nil
         THEN IF ~call[c].s.requireSuccess
              THEN Returned(c, res, Nil, {}, l, g, TRUE)
              ELSE BackoffOrFinish(c, l, g)
    ELSE IF IsTimeout(err)
         THEN IF ~call[c].s.requireSuccess
              THEN Returned(c, <<>>, Nil, {}, l, g, TRUE)
              ELSE BackoffOrFinish(c, [l EXCEPT !.lerr = err], g)
    ELSE Returned(c, <<>>, err, {}, l, g, TRUE)

\* (a variant that retries after any error when a response is required)
AfterReadCmdRetryIoError(c, res, err, from, l, g) ==
    IF Len(res) > 0 THEN Returned(c, res, Nil, from, l, g, TRUE)
    ELSE IF err = Nil
         THEN IF ~call[c].s.requireSuccess
              THEN Returned(c, res, Nil, {}, l, g, TRUE)
              ELSE BackoffOrFinish(c, l, g)
    ELSE IF ~call[c].s.requireSuccess
         THEN Returned(c, <<>>, IF IsTimeout(err) THEN Nil ELSE err, {}, l, g, TRUE)
         ELSE BackoffOrFinish(c, [l EXCEPT !.lerr = err], g)

\* (a variant that goes on to the next attempt after an empty answer without
\* error, whatever requireSuccess is)
AfterReadCmdRetryEmpty(c, res, err, from, l, g) ==
    IF Len(res) > 0 THEN Returned(c, res, Nil, from, l, g, TRUE)
    ELSE IF err = Nil
         THEN BackoffOrFinish(c, l, g)
    ELSE IF IsTimeout(err)
         THEN IF ~call[c].s.requireSuccess
              THEN Returned(c, <<>>, Nil, {}, l, g, TRUE)
              ELSE BackoffOrFinish(c, [l EXCEPT !.lerr = err], g)
    ELSE Returned(c, <<>>, err, {}, l, g, TRUE)

\* SendCommand lines 51-69: what follows readResponse returning (res, err)
AfterReadCmd(c, res, err, from, l, g) ==
    IF Len(res) > 0 THEN Returned(c, res, Nil, from, l, g, TRUE)
    ELSE IF err = Nil
         THEN IF ~call[c].s.requireSuccess
              THEN Returned(c, res, Nil, {}, l, g, TRUE)
              ELSE BackoffOrFinish(c, l, g)
    ELSE IF IsTimeout(err)
         THEN IF ~call[c].s.requireSuccess
              THEN Returned(c, <<>>, Nil, {}, l, g, TRUE)
              ELSE BackoffOrFinish(c, [l EXCEPT !.lerr = err], g)
    ELSE Returned(c, <<>>, err, {}, l, g, TRUE)

\* GetInfo lines 310-315, GetStatus lines 395-400
AfterReadQuery(c, res, err, from, l, g) ==
    IF err # Nil THEN Returned(c, <<>>, err, {}, l, g, TRUE)
    ELSE IF Len(res) = 0 THEN Returned(c, <<>>, ErrEmptyResponse, {}, l, g, TRUE)
    ELSE Returned(c, res, Nil, from, l, g, TRUE)

AfterRead(c, res, err, from, l, g) ==
    IF call[c].op \in CmdOps
    THEN AfterReadCmd(c, res, err, from, l, g)
    ELSE AfterReadQuery(c, res, err, from, l, g)

----------------------------------------------------------------------------
(* The server and the clock                                                *)

Header == Sentinel \o PrintBanner

\* what a reply datagram may carry: nothing, the bare header, a line of data
ExecPayloads == {<<>>, Header, Header \o <<"a", NL>>}

\* a return is observed at once: the caller takes the result (Reset) before any
\* other step is taken
NoReturn == \A c \in Callers : pc[c] # "done"

\* the server answers a request it has received, at any time, any number of times
Deliver(d, id) ==
    /\ NoReturn
    /\ Conn = "open"
    /\ id \in reqs
    /\ nsent' = nsent + 1
    /\ rxq' = Append(rxq, [pl |-> d, of |-> id])
    /\ gh' = [c \in Callers |->
                IF pc[c] = "read"
                THEN [gh[c] EXCEPT !.arr = Append(@, [pl |-> d, t |-> gh[c].cyc]),
                                   !.seen = @ + 1]
                ELSE gh[c]]
    /\ UNCHANGED <<Conn, mu, reqs, nfault, ncall, pc, call, loc, ret>>
    /\ UNCHANGED parserVars

Send(d, id) ==
    /\ ncall + nsent < MaxLoad
    /\ Deliver(d, id)

\* a caller that only the passing of time (or a datagram, or Close) can move
Blocked(c) ==
    /\ pc[c] \in {"read", "sleep"}
    /\ loc[c].timer > 0
    /\ pc[c] = "read" => (rxq = <<>> /\ Conn = "open")

Quiet(c) ==
    \/ pc[c] \in {"idle", "done"}
    \/ pc[c] = "lock" /\ mu # NoCaller
    \/ Blocked(c)

\* the time left to the blocked caller that wakes first
NextWake ==
    LET ts == {loc[c].timer : c \in {b \in Callers : Blocked(b)}}
    IN  CHOOSE x \in ts : \A y \in ts : x <= y

\* whether a datagram can still arrive while a caller is blocked in Read
MayArrive ==
    /\ ncall + nsent < MaxLoad
    /\ reqs # {}
    /\ \E c \in Callers : Blocked(c) /\ pc[c] = "read"

\* time passes while every caller in a call is blocked in Read, in Sleep or on
\* the mutex: up to the next deadline, or by Tick where a datagram may still
\* arrive in between (no other step depends on the time at which it is taken)
Advance(whole) ==
    /\ NoReturn
    /\ \A c \in Callers : Quiet(c)
    /\ \E c \in Callers : Blocked(c)
    /\ whole \/ (MayArrive /\ Tick < NextWake)
    /\ LET dt == IF whole THEN NextWake ELSE Tick
       IN  /\ loc' = [c \in Callers |->
                        IF Blocked(c) THEN [loc[c] EXCEPT !.timer = @ - dt] ELSE loc[c]]
           /\ gh' = [c \in Callers |->
                        IF Blocked(c)
                        THEN [gh[c] EXCEPT !.cyc = IF pc[c] = "read" THEN @ + dt ELSE @]
                        ELSE gh[c]]
    /\ UNCHANGED <<Conn, mu, rxq, reqs, nsent, nfault, ncall, pc, call, ret>>
    /\ UNCHANGED parserVars

----------------------------------------------------------------------------
(* The operations                                                          *)

\* a caller starts SendCommand, GetInfo or GetStatus: the rc.Conn == nil test
Start(c, o) ==
    /\ NoReturn
    /\ pc[c] = "idle"
    /\ ncall' = ncall + 1
    /\ call' = [call EXCEPT ![c] = [op |-> o, id |-> ncall + 1, s |-> SettingsOf(o)]]
    /\ IF Conn = "nil"
       THEN Returned(c, <<>>, ErrNotEstablished, {}, NoLoc,
                     [NoGh EXCEPT !.closed = Conn = "closed"], FALSE)
       ELSE /\ pc' = [pc EXCEPT ![c] = "lock"]
            /\ loc' = [loc EXCEPT ![c] = NoLoc]
            /\ gh' = [gh EXCEPT ![c] = [NoGh EXCEPT !.closed = Conn = "closed"]]
            /\ UNCHANGED <<ret, mu>>
    /\ UNCHANGED <<Conn, rxq, reqs, nsent, nfault>>
    /\ UNCHANGED parserVars

Invoke(c, o) ==
    /\ ncall + nsent < MaxLoad
    /\ Start(c, o)

\* Close: rc.Conn.Close(), by any thread, without the mutex; rc.Conn keeps
\* pointing at the socket
Close ==
    /\ NoReturn
    /\ Conn = "open"
    /\ Conn' = "closed"
    /\ UNCHANGED <<mu, rxq, reqs, nsent, nfault, ncall, pc, call, loc, gh, ret>>
    /\ UNCHANGED parserVars

\* sync.Mutex: Lock returns only when no caller holds the mutex
MutexFreeAlways == TRUE
MutexFree == mu = NoCaller

\* rc.mu.Lock()
Lock(c) ==
    /\ NoReturn
    /\ pc[c] = "lock"
    /\ MutexFree
    /\ mu' = c
    /\ pc' = [pc EXCEPT ![c] = "write"]
    /\ UNCHANGED <<Conn, rxq, reqs, nsent, nfault, ncall, call, loc, gh, ret>>
    /\ UNCHANGED parserVars

\* rc.Conn.Write(packet) succeeds; readResponse starts with its first deadline
WriteOk(c) ==
    /\ NoReturn
    /\ pc[c] = "write"
    /\ Conn = "open"
    /\ reqs' = reqs \cup {call[c].id}
    /\ pc' = [pc EXCEPT ![c] = "read"]
    /\ loc' = [loc EXCEPT ![c].buf = <<>>,
                          ![c].timer = EffTimeout(call[c].s.readTimeout)]
    /\ gh' = [gh EXCEPT ![c].writes = @ + 1, ![c].cyc = 0,
                        ![c].arr = Arrivals(rxq, 0), ![c].seen = @ + Len(rxq),
                        ![c].acc = <<>>, ![c].ended = FALSE, ![c].rr = NoRR]
    /\ UNCHANGED <<Conn, mu, rxq, nsent, nfault, ncall, call, ret>>
    /\ UNCHANGED parserVars

\* rc.Conn.Write(packet) fails: always on a closed socket, else transiently
WriteFail(c) ==
    /\ NoReturn
    /\ pc[c] = "write"
    /\ Conn = "closed" \/ (Conn = "open" /\ nfault < MaxFaults)
    /\ nfault' = IF Conn = "open" THEN nfault + 1 ELSE nfault
    /\ LET err == IF Conn = "closed" THEN ErrClosed ELSE ErrRefused
           g == [gh[c] EXCEPT !.wfails = @ + 1, !.rr = NoRR, !.lasterr = err,
                              !.acc = <<>>, !.ended = FALSE]
       IN  IF call[c].op \in CmdOps
           THEN BackoffOrFinish(c, [loc[c] EXCEPT !.lerr = err], g)
           ELSE Returned(c, <<>>, err, {}, loc[c], g, TRUE)
    /\ UNCHANGED <<Conn, rxq, reqs, nsent, ncall, call>>
    /\ UNCHANGED parserVars

\* the deadline after a read of n bytes (readResponse lines 81-86), as time left
NextTimerNoExtend(n, ext, timer) == timer
NextTimer(n, ext, timer) == IF n > 0 /\ ext > 0 THEN ext ELSE timer

\* rc.Conn.Read returns a datagram before the deadline
ReadDatagram(c) ==
    /\ NoReturn
    /\ pc[c] = "read"
    /\ Conn = "open"
    /\ loc[c].timer > 0
    /\ rxq # <<>>
    /\ LET d == Head(rxq)
           n == Min(Len(d.pl), readBufferSize)
           got == [d EXCEPT !.pl = SubSeq(d.pl, 1, n)]
           ext == EffExtension(call[c].s.readExtension)
       IN  loc' = [loc EXCEPT ![c].buf = IF n > 0 THEN Append(@, got) ELSE @,
                              ![c].timer = NextTimer(n, ext, @)]
    /\ rxq' = Tail(rxq)
    /\ UNCHANGED <<Conn, mu, reqs, nsent, nfault, ncall, pc, call, gh, ret>>
    /\ UNCHANGED parserVars

\* rc.Conn.Read times out: with nothing accumulated readResponse fails with the
\* timeout, else the loop breaks and the buffer is normalised and split
ReadTimeout(c) ==
    /\ NoReturn
    /\ pc[c] = "read"
    /\ Conn = "open"
    /\ loc[c].timer = 0
    /\ LET buf == loc[c].buf
           l == [loc[c] EXCEPT !.buf = <<>>]
           g == [gh[c] EXCEPT !.windows = @ + 1, !.acc = Bytes(buf), !.ended = TRUE]
       IN  IF Len(Bytes(buf)) = 0
           THEN AfterRead(c, <<>>, ErrTimeout, {}, l,
                          [g EXCEPT !.rr = RR(<<>>, ErrTimeout), !.lasterr = ErrTimeout])
           ELSE AfterRead(c, LinesOf(Bytes(buf)), Nil,
                          {buf[k].of : k \in 1..Len(buf)}, l,
                          [g EXCEPT !.rr = RR(LinesOf(Bytes(buf)), Nil)])
    /\ UNCHANGED <<Conn, rxq, reqs, nsent, nfault, ncall, call>>
    /\ UNCHANGED parserVars

\* SetReadDeadline or Read fails because Close was called: readResponse
\* returns that error whatever it has accumulated
ReadClosed(c) ==
    /\ NoReturn
    /\ pc[c] = "read"
    /\ Conn = "closed"
    /\ AfterRead(c, <<>>, ErrClosed, {}, [loc[c] EXCEPT !.buf = <<>>],
                 [gh[c] EXCEPT !.ioerr = TRUE, !.rr = RR(<<>>, ErrClosed),
                               !.lasterr = ErrClosed])
    /\ UNCHANGED <<Conn, rxq, reqs, nsent, nfault, ncall, call>>
    /\ UNCHANGED parserVars

\* Read fails with a transient error other than a timeout
ReadFault(c) ==
    /\ NoReturn
    /\ pc[c] = "read"
    /\ Conn = "open"
    /\ nfault < MaxFaults
    /\ nfault' = nfault + 1
    /\ AfterRead(c, <<>>, ErrRefused, {}, [loc[c] EXCEPT !.buf = <<>>],
                 [gh[c] EXCEPT !.ioerr = TRUE, !.rr = RR(<<>>, ErrRefused),
                               !.lasterr = ErrRefused])
    /\ UNCHANGED <<Conn, rxq, reqs, nsent, ncall, call>>
    /\ UNCHANGED parserVars

\* time.Sleep returns; the loop's i++ (i <= retries holds after a sleep)
Wake(c) ==
    /\ NoReturn
    /\ pc[c] = "sleep"
    /\ loc[c].timer = 0
    /\ pc' = [pc EXCEPT ![c] = "write"]
    /\ loc' = [loc EXCEPT ![c].i = @ + 1]
    /\ UNCHANGED <<Conn, mu, rxq, reqs, nsent, nfault, ncall, call, gh, ret>>
    /\ UNCHANGED parserVars

\* the caller takes the returned result; it is then ready for its next call
Reset(c) ==
    /\ pc[c] = "done"
    /\ pc' = [pc EXCEPT ![c] = "idle"]
    /\ call' = [call EXCEPT ![c] = NoCall]
    /\ loc' = [loc EXCEPT ![c] = NoLoc]
    /\ gh' = [gh EXCEPT ![c] = NoGh]
    /\ ret' = [ret EXCEPT ![c] = NoRet]
    /\ UNCHANGED <<Conn, mu, rxq, reqs, nsent, nfault, ncall>>
    /\ UNCHANGED parserVars

Next ==
    \/ \E c \in Callers, o \in Ops : Invoke(c, o)
    \/ Close
    \/ \E c \in Callers : Lock(c)
    \/ \E c \in Callers : WriteOk(c)
    \/ \E c \in Callers : WriteFail(c)
    \/ \E c \in Callers : ReadDatagram(c)
    \/ \E c \in Callers : ReadTimeout(c)
    \/ \E c \in Callers : ReadClosed(c)
    \/ \E c \in Callers : ReadFault(c)
    \/ \E c \in Callers : Wake(c)
    \/ \E c \in Callers : Reset(c)
    \/ \E d \in ExecPayloads, id \in 1..MaxLoad : Send(d, id)
    \/ \E whole \in BOOLEAN : Advance(whole)

----------------------------------------------------------------------------
(* One caller and a server that answers each packet at most once           *)

\* calls made by the one caller
MaxSoloCalls == 1

InvokeSolo(c, o) ==
    /\ ncall < MaxSoloCalls
    /\ Start(c, o)

\* the server answers the packet of the attempt that is waiting in Read; it
\* has sent no more datagrams than the call has written packets
Reply(c, d) ==
    /\ pc[c] = "read"
    /\ gh[c].seen < gh[c].writes
    /\ Deliver(d, call[c].id)

NextSolo ==
    LET c == "c1"
    IN  \/ \E o \in Ops : InvokeSolo(c, o)
        \/ Close
        \/ Lock(c)
        \/ WriteOk(c)
        \/ WriteFail(c)
        \/ ReadDatagram(c)
        \/ ReadTimeout(c)
        \/ ReadClosed(c)
        \/ ReadFault(c)
        \/ Wake(c)
        \/ Reset(c)
        \/ \E d \in ExecPayloads : Reply(c, d)
        \/ Advance(TRUE)


----------------------------------------------------------------------------
(* Properties of the command executor                                      *)

InExchange(c) == pc[c] \in {"write", "read", "sleep"}

\* C1: on one connection at most one exchange is in progress: a caller between
\* its first packet write and its return (retries and backoff sleeps included)
\* holds the mutex, so no other caller is writing to or reading from the socket,
\* and a caller that arrives meanwhile waits at Lock
C1_ExchangeSerialized ==
    /\ \A c \in Callers : InExchange(c) => mu = c
    /\ Cardinality({c \in Callers : InExchange(c)}) <= 1
    /\ \A c \in Callers : pc[c] = "done" => mu # c

\* a caller sleeping in its backoff while another waits for the mutex
C1_Witness ==
    \E c, d \in Callers : c # d /\ pc[c] = "sleep" /\ pc[d] = "lock" /\ mu = c

\* a SendCommand call whose writes all succeeded, that saw no datagram and no
\* socket error other than timeouts
SilentCall(c) ==
    /\ call[c].op \in CmdOps
    /\ gh[c].writes >= 1
    /\ gh[c].wfails = 0
    /\ gh[c].seen = 0
    /\ ~gh[c].ioerr

\* C2: a SendCommand with requireSuccess=false whose write succeeds and whose
\* server stays silent returns (empty, nil) at the end of one read window of
\* readTimeout: one packet written, no backoff sleep, no second attempt
C2_SilentFireAndForget ==
    \A c \in Callers :
        (pc[c] = "done" /\ SilentCall(c) /\ ~call[c].s.requireSuccess) =>
            /\ ret[c].res = <<>>
            /\ ret[c].err = Nil
            /\ gh[c].writes = 1
            /\ gh[c].sleeps = <<>>
            /\ gh[c].windows = 1
            /\ gh[c].cyc = EffTimeout(call[c].s.readTimeout)
            /\ loc[c].i = 0

C2_Witness ==
    \E c \in Callers :
        pc[c] = "done" /\ SilentCall(c) /\ ~call[c].s.requireSuccess /\ gh[c].windows = 1

\* C3: a SendCommand with requireSuccess=true and a silent server writes the
\* packet retries+1 times, sleeps (i+1)*150ms after each attempt i < retries and
\* not after the last, and returns a non-nil error only after the last
\* attempt's read window; until then it has returned nothing
C3_SilentRequiredCommand ==
    \A c \in Callers :
        (SilentCall(c) /\ call[c].s.requireSuccess) =>
            /\ gh[c].sleeps = [k \in 1..Len(gh[c].sleeps) |-> k * 150]
            /\ Len(gh[c].sleeps) = IF pc[c] = "sleep" THEN loc[c].i + 1 ELSE Min(loc[c].i, call[c].s.retries)
            /\ pc[c] = "done" =>
                /\ gh[c].writes = call[c].s.retries + 1
                /\ gh[c].windows = call[c].s.retries + 1
                /\ Len(gh[c].sleeps) = call[c].s.retries
                /\ ret[c].err = ErrTimeout
                /\ ret[c].res = <<>>

C3_Witness ==
    \E c \in Callers :
        /\ pc[c] = "done" /\ SilentCall(c) /\ call[c].s.requireSuccess
        /\ gh[c].sleeps = <<150, 300, 450>>

\* the payloads accumulated from arrivals arr[k], arr[k+1], ... when every
\* datagram that arrives in time moves the deadline to its arrival + ext
RECURSIVE ChainAll(_, _, _, _)
ChainAll(arr, k, limit, ext) ==
    IF k > Len(arr) \/ arr[k].t >= limit THEN <<>>
    ELSE arr[k].pl \o ChainAll(arr, k + 1, arr[k].t + ext, ext)

\* the same when only a datagram with a payload moves the deadline
RECURSIVE ChainData(_, _, _, _)
ChainData(arr, k, limit, ext) ==
    IF k > Len(arr) \/ arr[k].t >= limit THEN <<>>
    ELSE arr[k].pl \o ChainData(arr, k + 1,
                                IF arr[k].pl # <<>> THEN arr[k].t + ext ELSE limit, ext)

\* C4 as stated: a cycle that ends by the idle timeout has accumulated exactly
\* the datagrams of the unbroken run: the first one before the initial deadline,
\* each later one less than readExtension after the one before it
C4_AccumulatesUnbrokenRun ==
    \A c \in Callers :
        (gh[c].ended /\ call[c].s.readExtension > 0) =>
            gh[c].acc = ChainAll(gh[c].arr, 1, EffTimeout(call[c].s.readTimeout),
                                 call[c].s.readExtension)

\* C4 amended: the run is counted over the datagrams that carry a payload: the
\* first of them before the initial deadline, each later one less than
\* readExtension after the last datagram with a payload; a zero-length datagram
\* adds nothing and does not move the deadline
C4_AccumulatesUnbrokenDataRun ==
    \A c \in Callers :
        (gh[c].ended /\ call[c].s.readExtension > 0) =>
            gh[c].acc = ChainData(gh[c].arr, 1, EffTimeout(call[c].s.readTimeout),
                                  call[c].s.readExtension)

\* two datagrams with payloads, the second one readExtension or more after the
\* first: the cycle returned the first alone and the second is still queued
C4_Witness ==
    \E c \in Callers :
        /\ gh[c].ended
        /\ Len(gh[c].arr) = 2
        /\ gh[c].arr[1].pl # <<>> /\ gh[c].arr[2].pl # <<>>
        /\ gh[c].arr[2].t - gh[c].arr[1].t >= call[c].s.readExtension
        /\ gh[c].acc = gh[c].arr[1].pl
        /\ Len(rxq) = 1

\* C5 as stated: a call started after Close fails with "connection is not
\* established", having attempted no write and slept through no backoff
C5_ClosedClientRejects ==
    \A c \in Callers :
        (pc[c] = "done" /\ gh[c].closed) =>
            /\ ret[c].err = ErrNotEstablished
            /\ gh[c].writes + gh[c].wfails = 0
            /\ gh[c].sleeps = <<>>

\* C13: in SendCommand, once an attempt's readResponse has returned one line
\* or more, the call has returned exactly those lines with a nil error,
\* whatever requireSuccess is and whatever error an earlier attempt left
\* behind: the call is neither sleeping nor writing again after that attempt
C13_LinesShortCircuit ==
    \A c \in Callers :
        (call[c].op \in CmdOps /\ gh[c].rr.set /\ Len(gh[c].rr.res) > 0) =>
            /\ pc[c] = "done"
            /\ ret[c].res = gh[c].rr.res
            /\ ret[c].err = Nil
            /\ Len(gh[c].sleeps) = gh[c].writes + gh[c].wfails - 1

\* lines returned by a later attempt after an earlier attempt left an error
C13_Witness ==
    \E c \in Callers :
        /\ pc[c] = "done" /\ call[c].op \in CmdOps
        /\ Len(gh[c].rr.res) > 0
        /\ gh[c].lasterr # Nil
        /\ ret[c].res # <<>> /\ ret[c].err = Nil

\* C14: in SendCommand, once an attempt's readResponse has failed with an
\* error that is no timeout, the call has returned that error, for
\* requireSuccess true and false alike: no sleep and no write follows, even
\* with attempts left
C14_IoErrorFailsAtOnce ==
    \A c \in Callers :
        (call[c].op \in CmdOps /\ gh[c].rr.set /\ gh[c].rr.err \notin {Nil, ErrTimeout}) =>
            /\ pc[c] = "done"
            /\ ret[c].err = gh[c].rr.err
            /\ ret[c].res = <<>>
            /\ Len(gh[c].sleeps) = gh[c].writes + gh[c].wfails - 1

\* a transient read error in the first attempt of a command that requires a
\* response
C14_Witness ==
    \E c \in Callers :
        /\ pc[c] = "done" /\ call[c].op \in CmdOps /\ call[c].s.requireSuccess
        /\ gh[c].rr.err = ErrRefused
        /\ gh[c].writes = 1 /\ gh[c].wfails = 0
        /\ ret[c].err = ErrRefused

\* C15: in SendCommand a failed write is followed by no read in that attempt
\* and never ends the call while attempts are left: the call sleeps
\* (attempt+1)*150ms and writes again, and a call whose last attempt was a
\* failed write has made retries+1 attempts and returns the write error it
\* remembered, with requireSuccess false too
C15_WriteFailureRetried ==
    \A c \in Callers :
        (call[c].op \in CmdOps /\ gh[c].wfails > 0) =>
            /\ gh[c].windows <= gh[c].writes
            /\ gh[c].sleeps = [k \in 1..Len(gh[c].sleeps) |-> k * 150]
            /\ (pc[c] = "done" /\ ~gh[c].rr.set) =>
                  /\ gh[c].writes + gh[c].wfails = call[c].s.retries + 1
                  /\ Len(gh[c].sleeps) = call[c].s.retries
                  /\ ret[c].err = gh[c].lasterr
                  /\ ret[c].err \in {ErrClosed, ErrRefused}
                  /\ ret[c].res = <<>>
            /\ (pc[c] = "sleep" /\ ~gh[c].rr.set) =>
                  Len(gh[c].sleeps) = gh[c].writes + gh[c].wfails

\* all four writes of a fire-and-forget command failed
C15_Witness ==
    \E c \in Callers :
        /\ pc[c] = "done" /\ call[c].op \in CmdOps /\ ~call[c].s.requireSuccess
        /\ gh[c].wfails = call[c].s.retries + 1
        /\ gh[c].sleeps = <<150, 300, 450>>
        /\ ret[c].err = ErrClosed

\* a call that made all its attempts, the last one ending in neither lines nor
\* an error other than a timeout
Exhausted(c) ==
    /\ pc[c] = "done"
    /\ call[c].op \in CmdOps
    /\ gh[c].writes + gh[c].wfails = call[c].s.retries + 1
    /\ ~(gh[c].rr.set /\ (Len(gh[c].rr.res) > 0 \/ gh[c].rr.err \notin {Nil, ErrTimeout}))

\* C16: a SendCommand with requireSuccess=true that used up its retries+1
\* attempts without lines fails with the last error recorded in the call (a
\* failed write or a read timeout), and with "no response received" exactly
\* when none was recorded: every write succeeded and every accumulation
\* ended with data that normalised to nothing
C16_ExhaustedError ==
    \A c \in Callers :
        (Exhausted(c) /\ call[c].s.requireSuccess) =>
            /\ ret[c].res = <<>>
            /\ gh[c].lasterr # Nil => ret[c].err = gh[c].lasterr
            /\ gh[c].lasterr = Nil => ret[c].err = ErrNoResponse
            /\ ret[c].err = ErrNoResponse =>
                  /\ gh[c].wfails = 0
                  /\ gh[c].writes = call[c].s.retries + 1
                  /\ gh[c].seen >= call[c].s.retries + 1
                  /\ gh[c].rr = RR(<<>>, Nil)

\* four attempts, each answered by a bare header
C16_Witness ==
    \E c \in Callers :
        /\ Exhausted(c) /\ call[c].s.requireSuccess
        /\ ret[c].err = ErrNoResponse
        /\ gh[c].writes = 4

\* C17: a read timeout ends readResponse according to the accumulated bytes
\* alone: with none, readResponse fails with the timeout; with one or more,
\* it returns the lines of the normalised buffer and a nil error, an empty
\* line sequence when the buffer normalises to the empty string
C17_TimeoutEndsCycle ==
    \A c \in Callers :
        gh[c].ended =>
            IF gh[c].acc = <<>>
            THEN gh[c].rr = RR(<<>>, ErrTimeout)
            ELSE /\ gh[c].rr.set /\ gh[c].rr.err = Nil
                 /\ gh[c].rr.res = IF normalizeRCON(gh[c].acc) = <<>> THEN <<>>
                                    ELSE splitNonEmptyLines(normalizeRCON(gh[c].acc))
                 /\ normalizeRCON(gh[c].acc) = <<>> => gh[c].rr.res = <<>>

\* a cycle that accumulated a bare header: bytes, but no line
C17_Witness ==
    \E c \in Callers :
        /\ gh[c].ended
        /\ gh[c].acc = Header
        /\ gh[c].rr = RR(<<>>, Nil)

\* C19: when Close is called while a call is blocked in Read, the read can fail
\* at once and no time passes before it does; readResponse fails with the
\* closed-connection error, which is no timeout, and the call has returned
\* that error without a further attempt
C19_CloseEndsRead ==
    \A c \in Callers :
        /\ (pc[c] = "read" /\ Conn = "closed") =>
              /\ ENABLED ReadClosed(c)
              /\ ~ENABLED Advance(TRUE)
              /\ ~ENABLED ReadTimeout(c)
        /\ (gh[c].rr.set /\ gh[c].rr.err = ErrClosed) =>
              /\ ~IsTimeout(gh[c].rr.err)
              /\ pc[c] = "done"
              /\ ret[c].err = ErrClosed
              /\ ret[c].res = <<>>

\* a command that requires a response, closed during its first read
C19_Witness ==
    \E c \in Callers :
        /\ pc[c] = "done" /\ ~gh[c].closed
        /\ call[c].op \in CmdOps /\ call[c].s.requireSuccess
        /\ gh[c].rr.err = ErrClosed
        /\ gh[c].writes = 1 /\ gh[c].wfails = 0 /\ gh[c].sleeps = <<>>
        /\ ret[c].err = ErrClosed

\* C21: a SendCommand call with requireSuccess=false writes its packet
\* successfully at most once: once a write succeeded the call neither sleeps
\* nor writes again, and when readResponse has returned the call is over with
\* the outcome of that one read (the lines; nothing and no error after an
\* empty answer or a timeout; the error after an I/O error). Every backoff
\* sleep of such a call follows a failed write
C21_WritesAtMostOnce ==
    \A c \in Callers :
        (call[c].op \in CmdOps /\ ~call[c].s.requireSuccess) =>
            /\ gh[c].writes <= 1
            /\ gh[c].writes + gh[c].wfails <= call[c].s.retries + 1
            /\ Len(gh[c].sleeps) <= gh[c].wfails
            /\ gh[c].writes = 1 => pc[c] \in {"read", "done"}
            /\ gh[c].rr.set =>
                  /\ pc[c] = "done"
                  /\ gh[c].writes = 1
                  /\ ret[c].res = gh[c].rr.res
                  /\ ret[c].err = IF Len(gh[c].rr.res) > 0 \/ gh[c].rr.err = ErrTimeout
                                  THEN Nil ELSE gh[c].rr.err

\* a fire-and-forget command whose first write failed and whose second write
\* succeeded returned after the silent read window that followed
C21_Witness ==
    \E c \in Callers :
        /\ pc[c] = "done" /\ call[c].op \in CmdOps /\ ~call[c].s.requireSuccess
        /\ gh[c].wfails = 1 /\ gh[c].writes = 1
        /\ gh[c].sleeps = <<150>>
        /\ gh[c].rr.set /\ gh[c].rr.err = ErrTimeout
        /\ ret[c].err = Nil

\* C20 as stated: every line a call returns came in datagrams that the server
\* sent in reply to a packet of that same call
C20_OwnRepliesOnly ==
    \A c \in Callers :
        (pc[c] = "done" /\ ret[c].res # <<>>) => ret[c].from \subseteq {call[c].id}

----------------------------------------------------------------------------
(* Normalisation of an accumulated buffer (readResponse lines 81-94)       *)

\* datagrams written to one buffer
MaxDatagrams == 3

\* reply datagrams: header and a line; header and text without a final newline;
\* the bare header; a continuation without header; header and a CRLF line
NormDatagrams ==
    { Header \o <<"a", NL>>,
      Header \o <<"b">>,
      Header,
      <<"c", NL>>,
      Header \o <<"d", CR, NL>> }

NormPending == [done |-> FALSE, raw |-> <<>>, lines |-> <<>>]

InitNorm ==
    /\ nbuf = <<>>
    /\ nparts = <<>>
    /\ nout = NormPending

\* a datagram of n > 0 bytes is read: buf.Write(tmp[:n])
NormRead(d) ==
    /\ ~nout.done
    /\ Len(nparts) < MaxDatagrams
    /\ nbuf' = nbuf \o d
    /\ nparts' = Append(nparts, d)
    /\ UNCHANGED <<nout, execVars, kvVars, dvarVars, setVars, statusVars>>

\* the read times out with data in the buffer: normalise and split
NormBreak ==
    /\ ~nout.done
    /\ nbuf # <<>>
    /\ nout' = [done |-> TRUE, raw |-> normalizeRCON(nbuf), lines |-> LinesOf(nbuf)]
    /\ UNCHANGED <<nbuf, nparts, execVars, kvVars, dvarVars, setVars, statusVars>>

NextNorm ==
    \/ \E d \in NormDatagrams : NormRead(d)
    \/ NormBreak

\* C8 as stated: the normalised text has no leading sentinel or "print" banner
\* left and no embedded newline+sentinel or newline+"print"+newline; and when
\* every datagram of the buffer carried the sentinel + "print\n" header, no
\* line holds a sentinel byte and no line is a bare "print"
C8_NoMarkerSurvives ==
    nout.done =>
        /\ ~HasPrefix(nout.raw, Sentinel)
        /\ ~HasPrefix(nout.raw, PrintBanner)
        /\ ~Contains(nout.raw, NlSentinel)
        /\ ~Contains(nout.raw, NlPrintNl)
        /\ (\A k \in 1..Len(nparts) : HasPrefix(nparts[k], Header)) =>
                \A j \in 1..Len(nout.lines) :
                    /\ ~Contains(nout.lines[j], <<FF>>)
                    /\ nout.lines[j] # <<"p", "r", "i", "n", "t">>

----------------------------------------------------------------------------
(* Key/value block decoding (GetInfo lines 313-375, GetStatus 398-467)     *)

\* the key names GetInfo and GetStatus use
Key ==
    [ netfieldchk |-> <<"n", "e", "t", "f", "i", "e", "l", "d", "c", "h", "k">>,
      protocol |-> <<"p", "r", "o", "t", "o", "c", "o", "l">>,
      sessionmode |-> <<"s", "e", "s", "s", "i", "o", "n", "m", "o", "d", "e">>,
      hostname |-> <<"h", "o", "s", "t", "n", "a", "m", "e">>,
      mapname |-> <<"m", "a", "p", "n", "a", "m", "e">>,
      isInGame |-> <<"i", "s", "I", "n", "G", "a", "m", "e">>,
      com_maxclients |->
          <<"c", "o", "m", "_", "m", "a", "x", "c", "l", "i", "e", "n", "t", "s">>,
      gametype |-> <<"g", "a", "m", "e", "t", "y", "p", "e">>,
      hw |-> <<"h", "w">>,
      mod |-> <<"m", "o", "d">>,
      voice |-> <<"v", "o", "i", "c", "e">>,
      seckey |-> <<"s", "e", "c", "k", "e", "y">>,
      secid |-> <<"s", "e", "c", "i", "d">>,
      hostaddr |-> <<"h", "o", "s", "t", "a", "d", "d", "r">>,
      g_gametype |-> <<"g", "_", "g", "a", "m", "e", "t", "y", "p", "e">>,
      g_randomSeed |->
          <<"g", "_", "r", "a", "n", "d", "o", "m", "S", "e", "e", "d">>,
      gamename |-> <<"g", "a", "m", "e", "n", "a", "m", "e">>,
      playlist_enabled |->
          <<"p", "l", "a", "y", "l", "i", "s", "t", "_", "e", "n", "a", "b", "l", "e",
            "d">>,
      playlist_entry |->
          <<"p", "l", "a", "y", "l", "i", "s", "t", "_", "e", "n", "t", "r", "y">>,
      scr_team_fftype |->
          <<"s", "c", "r", "_", "t", "e", "a", "m", "_", "f", "f", "t", "y", "p", "e">>,
      shortversion |->
          <<"s", "h", "o", "r", "t", "v", "e", "r", "s", "i", "o", "n">>,
      sv_allowAimAssist |->
          <<"s", "v", "_", "a", "l", "l", "o", "w", "A", "i", "m", "A", "s", "s", "i",
            "s", "t">>,
      sv_allowAnonymous |->
          <<"s", "v", "_", "a", "l", "l", "o", "w", "A", "n", "o", "n", "y", "m", "o",
            "u", "s">>,
      sv_clientFpsLimit |->
          <<"s", "v", "_", "c", "l", "i", "e", "n", "t", "F", "p", "s", "L", "i", "m",
            "i", "t">>,
      sv_disableClientConsole |->
          <<"s", "v", "_", "d", "i", "s", "a", "b", "l", "e", "C", "l", "i", "e", "n",
            "t", "C", "o", "n", "s", "o", "l", "e">>,
      sv_hostname |-> <<"s", "v", "_", "h", "o", "s", "t", "n", "a", "m", "e">>,
      sv_maxclients |->
          <<"s", "v", "_", "m", "a", "x", "c", "l", "i", "e", "n", "t", "s">>,
      sv_maxPing |-> <<"s", "v", "_", "m", "a", "x", "P", "i", "n", "g">>,
      sv_minPing |-> <<"s", "v", "_", "m", "i", "n", "P", "i", "n", "g">>,
      sv_patch_dsr50 |->
          <<"s", "v", "_", "p", "a", "t", "c", "h", "_", "d", "s", "r", "5", "0">>,
      sv_privateClients |->
          <<"s", "v", "_", "p", "r", "i", "v", "a", "t", "e", "C", "l", "i", "e", "n",
            "t", "s">>,
      sv_privateClientsForClients |->
          <<"s", "v", "_", "p", "r", "i", "v", "a", "t", "e", "C", "l", "i", "e", "n",
            "t", "s", "F", "o", "r", "C", "l", "i", "e", "n", "t", "s">>,
      sv_privateClientsForUsers |->
          <<"s", "v", "_", "p", "r", "i", "v", "a", "t", "e", "C", "l", "i", "e", "n",
            "t", "s", "F", "o", "r", "U", "s", "e", "r", "s">>,
      sv_pure |-> <<"s", "v", "_", "p", "u", "r", "e">>,
      sv_voice |-> <<"s", "v", "_", "v", "o", "i", "c", "e">>,
      pswrd |-> <<"p", "s", "w", "r", "d">> ]
InfoBanner == <<"i", "n", "f", "o", "r", "e", "s", "p", "o", "n", "s", "e">>
StatusBanner == <<"s", "t", "a", "t", "u", "s", "r", "e", "s", "p", "o", "n", "s", "e">>

\* elements appended to one block
MaxElems == 4

\* what may stand between two backslashes of a block
KvElems ==
    { Key.hostname, <<"M", "y", " ", "S", "e", "r", "v", "e", "r">>,
      Key.mapname, <<"m", "p", "_", "n", "u", "k", "e", "t", "o", "w", "n">>,
      Key.protocol, <<"6">>, Key.mod, <<"1">>,
      <<"^", "5", "H", "i", " ">> }

\* kv[k] of a Go map[string]string: "" for a missing key
Get(kv, k) == IF k \in DOMAIN kv THEN kv[k] ELSE <<>>

Put(kv, k, v) == [x \in DOMAIN kv \cup {k} |-> IF x = k THEN v ELSE kv[x]]

EmptyMap == [x \in {} |-> <<>>]

\* the loop over lines that reassembles the data line
RECURSIVE Reassemble(_, _, _)
Reassemble(lines, banner, dataLine) ==
    IF lines = <<>> THEN dataLine
    ELSE LET t == TrimSpace(Head(lines))
         IN  IF EqualFold(t, banner) THEN Reassemble(Tail(lines), banner, dataLine)
             ELSE IF HasPrefix(t, <<BSL>>) \/ Contains(t, <<BSL>>)
                  THEN Reassemble(Tail(lines), banner, dataLine \o t)
             ELSE Reassemble(Tail(lines), banner, dataLine)

DataLine(lines, banner) ==
    LET d == Reassemble(lines, banner, <<>>)
    IN  IF d = <<>> THEN TrimSpace(lines[Len(lines)]) ELSE d

\* parts := strings.Split(dataLine, "\\"), without an empty first element
DropEmptyFirstNever(parts) == parts
DropEmptyFirst(parts) ==
    IF Len(parts) > 0 /\ parts[1] = <<>> THEN Tail(parts) ELSE parts

\* for i := 0; i < len(parts)-1; i += 2 (i counted from 1 here)
RECURSIVE PairUp(_, _, _)
PairUp(parts, i, kv) ==
    IF ~(i < Len(parts)) THEN kv
    ELSE LET key == TrimSpace(parts[i])
             val == TrimSpace(parts[i + 1])
         IN  IF key = <<>> THEN PairUp(parts, i + 2, kv)
             ELSE PairUp(parts, i + 2, Put(kv, key, stripColorCodes(val)))

DecodeBlock(lines, banner) ==
    PairUp(DropEmptyFirst(Split(DataLine(lines, banner), BSL)), 1, EmptyMap)

\* atoint64Safe of GetInfo
atoint64Safe(kv, k) == IF k \in DOMAIN kv THEN ParseDec(kv[k]) ELSE 0

\* the ServerInfo GetInfo fills in (RetrievedAt, a timestamp, left out)
ServerInfoOf(kv) ==
    [NetFieldChk |-> atoint64Safe(kv, Key.netfieldchk),
     Protocol |-> atoi(Key.protocol),
     SessionMode |-> atoi(Key.sessionmode),
     Hostname |-> Get(kv, Key.hostname),
     MapName |-> Get(kv, Key.mapname),
     IsInGame |-> boolSafe(Key.isInGame),
     MaxClients |-> atoi(Key.com_maxclients),
     GameType |-> Get(kv, Key.gametype),
     HW |-> atoi(Key.hw),
     Mod |-> boolSafe(Key.mod),
     Voice |-> boolSafe(Key.voice),
     SecKey |-> Get(kv, Key.seckey),
     SecID |-> Get(kv, Key.secid),
     HostAddr |-> Get(kv, Key.hostaddr)]

\* the ServerStatusInfo GetStatus fills in (RetrievedAt left out)
ServerStatusInfoOf(kv) ==
    [ComMaxClients |-> atoi(Key.com_maxclients),
     GameType |-> Get(kv, Key.g_gametype),
     RandomSeed |-> atoi(Key.g_randomSeed),
     GameName |-> Get(kv, Key.gamename),
     MapName |-> Get(kv, Key.mapname),
     PlaylistEnabled |-> boolSafe(Key.playlist_enabled),
     PlaylistEntry |-> atoi(Key.playlist_entry),
     Protocol |-> atoi(Key.protocol),
     ScrTeamFFType |-> atoi(Key.scr_team_fftype),
     ShortVersion |-> boolSafe(Key.shortversion),
     SvAllowAimAssist |-> boolSafe(Key.sv_allowAimAssist),
     SvAllowAnonymous |-> boolSafe(Key.sv_allowAnonymous),
     SvClientFpsLimit |-> atoi(Key.sv_clientFpsLimit),
     SvDisableClientConsole |-> boolSafe(Key.sv_disableClientConsole),
     SvHostname |-> Get(kv, Key.sv_hostname),
     SvMaxClients |-> atoi(Key.sv_maxclients),
     SvMaxPing |-> atoi(Key.sv_maxPing),
     SvMinPing |-> atoi(Key.sv_minPing),
     SvPatchDSR50 |-> boolSafe(Key.sv_patch_dsr50),
     SvPrivateClients |-> atoi(Key.sv_privateClients),
     SvPrivateClientsForUsers |->
        IF Key.sv_privateClientsForClients \in DOMAIN kv
        THEN ParseDec(kv[Key.sv_privateClientsForClients])
        ELSE atoi(Key.sv_privateClientsForUsers),
     SvPure |-> boolSafe(Key.sv_pure),
     SvVoice |-> boolSafe(Key.sv_voice),
     PasswordEnabled |-> boolSafe(Key.pswrd),
     ModEnabled |-> boolSafe(Key.mod)]

KvPending == [done |-> FALSE, op |-> "none", err |-> Nil, kv |-> EmptyMap, info |-> <<>>]

InitKV ==
    /\ kelems = <<>>
    /\ kblock = <<>>
    /\ kout = KvPending

\* the server's block grows by \element
KvAppend(e) ==
    /\ ~kout.done
    /\ Len(kelems) < MaxElems
    /\ IF kblock = <<>> THEN TRUE ELSE kblock[Len(kblock)] # BSL
    /\ kelems' = Append(kelems, e)
    /\ kblock' = kblock \o <<BSL>> \o e
    /\ UNCHANGED <<kout, execVars, normVars, dvarVars, setVars, statusVars>>

\* the server ends the block with a backslash
KvTrail ==
    /\ ~kout.done
    /\ kblock # <<>>
    /\ kblock[Len(kblock)] # BSL
    /\ kblock' = Append(kblock, BSL)
    /\ UNCHANGED <<kelems, kout, execVars, normVars, dvarVars, setVars, statusVars>>

\* the lines readResponse makes of the reply datagram: banner, newline, block
ReplyLines(banner) == LinesOf(Sentinel \o banner \o <<NL>> \o kblock)

\* GetInfo from the lines on (lines 313-375)
KvGetInfo ==
    /\ ~kout.done
    /\ LET lines == ReplyLines(<<"i", "n", "f", "o", "R", "e", "s", "p", "o", "n", "s", "e">>)
           kv == DecodeBlock(lines, InfoBanner)
       IN  kout' = IF Len(lines) = 0
                   THEN [KvPending EXCEPT !.done = TRUE, !.op = "GetInfo",
                                          !.err = ErrEmptyResponse]
                   ELSE [done |-> TRUE, op |-> "GetInfo", err |-> Nil, kv |-> kv,
                         info |-> ServerInfoOf(kv)]
    /\ UNCHANGED <<kelems, kblock, execVars, normVars, dvarVars, setVars, statusVars>>

\* GetStatus from the lines on (lines 398-467)
KvGetStatus ==
    /\ ~kout.done
    /\ LET lines == ReplyLines(<<"s", "t", "a", "t", "u", "s", "R", "e", "s", "p", "o", "n", "s", "e">>)
           kv == DecodeBlock(lines, StatusBanner)
       IN  kout' = IF Len(lines) = 0
                   THEN [KvPending EXCEPT !.done = TRUE, !.op = "GetStatus",
                                          !.err = ErrEmptyResponse]
                   ELSE [done |-> TRUE, op |-> "GetStatus", err |-> Nil, kv |-> kv,
                         info |-> ServerStatusInfoOf(kv)]
    /\ UNCHANGED <<kelems, kblock, execVars, normVars, dvarVars, setVars, statusVars>>

NextKV ==
    \/ \E e \in KvElems : KvAppend(e)
    \/ KvTrail
    \/ KvGetInfo
    \/ KvGetStatus

\* the integer and the boolean fields of the two results, each with its key
InfoIntFields ==
    { <<"NetFieldChk", Key.netfieldchk>>, <<"Protocol", Key.protocol>>,
      <<"SessionMode", Key.sessionmode>>, <<"MaxClients", Key.com_maxclients>>,
      <<"HW", Key.hw>> }
InfoBoolFields ==
    { <<"IsInGame", Key.isInGame>>, <<"Mod", Key.mod>>, <<"Voice", Key.voice>> }
StatusIntFields ==
    { <<"ComMaxClients", Key.com_maxclients>>, <<"RandomSeed", Key.g_randomSeed>>,
      <<"PlaylistEntry", Key.playlist_entry>>, <<"Protocol", Key.protocol>>,
      <<"ScrTeamFFType", Key.scr_team_fftype>>,
      <<"SvClientFpsLimit", Key.sv_clientFpsLimit>>,
      <<"SvMaxClients", Key.sv_maxclients>>, <<"SvMaxPing", Key.sv_maxPing>>,
      <<"SvMinPing", Key.sv_minPing>>, <<"SvPrivateClients", Key.sv_privateClients>> }
StatusBoolFields ==
    { <<"PlaylistEnabled", Key.playlist_enabled>>, <<"ShortVersion", Key.shortversion>>,
      <<"SvAllowAimAssist", Key.sv_allowAimAssist>>,
      <<"SvAllowAnonymous", Key.sv_allowAnonymous>>,
      <<"SvDisableClientConsole", Key.sv_disableClientConsole>>,
      <<"SvPatchDSR50", Key.sv_patch_dsr50>>, <<"SvPure", Key.sv_pure>>,
      <<"SvVoice", Key.sv_voice>>, <<"PasswordEnabled", Key.pswrd>>,
      <<"ModEnabled", Key.mod>> }

IntFieldRight(info, kv, f) ==
    info[f[1]] = IF f[2] \in DOMAIN kv THEN ParseDec(kv[f[2]]) ELSE 0

BoolFieldRight(info, kv, f) ==
    info[f[1]] = (f[2] \in DOMAIN kv /\
                    (kv[f[2]] = <<"1">> \/ EqualFold(kv[f[2]], <<"t", "r", "u", "e">>)))

\* C9 as stated: every integer field is the decimal value of its key in the
\* decoded map (0 when missing or unparseable) and every boolean field is true
\* exactly when its key is there with "1" or "true"
C9_TypedFieldsFromMap ==
    (kout.done /\ kout.err = Nil) =>
        IF kout.op = "GetInfo"
        THEN /\ \A f \in InfoIntFields : IntFieldRight(kout.info, kout.kv, f)
             /\ \A f \in InfoBoolFields : BoolFieldRight(kout.info, kout.kv, f)
        ELSE /\ \A f \in StatusIntFields : IntFieldRight(kout.info, kout.kv, f)
             /\ \A f \in StatusBoolFields : BoolFieldRight(kout.info, kout.kv, f)

\* the elements between the backslashes of the block the server sent, the
\* empty one after a final backslash included
BlockElems ==
    IF kblock # <<>> /\ kblock[Len(kblock)] = BSL THEN Append(kelems, <<>>) ELSE kelems

\* the pairs of a block, as the claim counts them
PairCount(es) == Len(es) \div 2
KeyAt(es, j) == TrimSpace(es[2 * j - 1])
ValAt(es, j) == stripColorCodes(TrimSpace(es[2 * j]))
PlainText(v) == TrimSpace(v) = v /\ ~Contains(v, <<CARET>>)

\* C10: a block \k1\v1\k2\v2..., with or without a final backslash, decodes to
\* the map of its elements paired positionally, an unpaired last element
\* dropped: each key holds its value (trimmed, colour codes stripped; the
\* value itself when it is plain text), a repeated key its last value; the
\* string fields are read off the map and keys that no field asks for raise
\* no error
C10_PairsPositionally ==
    kout.done =>
        /\ kout.err = Nil
        /\ DOMAIN kout.kv = {KeyAt(BlockElems, j) : j \in 1..PairCount(BlockElems)} \ {<<>>}
        /\ \A j \in 1..PairCount(BlockElems) :
              (/\ KeyAt(BlockElems, j) # <<>>
               /\ \A h \in (j + 1)..PairCount(BlockElems) :
                     KeyAt(BlockElems, h) # KeyAt(BlockElems, j))
              => /\ kout.kv[KeyAt(BlockElems, j)] = ValAt(BlockElems, j)
                 /\ PlainText(BlockElems[2 * j])
                       => kout.kv[KeyAt(BlockElems, j)] = BlockElems[2 * j]
        /\ (Len(kelems) % 2 = 0 /\ \A k \in 1..Len(kelems) : PlainText(kelems[k]))
              => \A j \in 1..PairCount(kelems) :
                    (\A h \in (j + 1)..PairCount(kelems) : kelems[2 * h - 1] # kelems[2 * j - 1])
                    => kout.kv[kelems[2 * j - 1]] = kelems[2 * j]
        /\ kout.op = "GetInfo" =>
              /\ kout.info.Hostname = Get(kout.kv, Key.hostname)
              /\ kout.info.MapName = Get(kout.kv, Key.mapname)
        /\ kout.op = "GetStatus" => kout.info.MapName = Get(kout.kv, Key.mapname)

\* \hostname\My Server\mapname\mp_nuketown\ decoded by GetInfo
C10_Witness ==
    /\ kout.done /\ kout.op = "GetInfo"
    /\ kelems = <<Key.hostname, <<"M", "y", " ", "S", "e", "r", "v", "e", "r">>, Key.mapname,
                  <<"m", "p", "_", "n", "u", "k", "e", "t", "o", "w", "n">>>>
    /\ kblock[Len(kblock)] = BSL
    /\ kout.info.Hostname = <<"M", "y", " ", "S", "e", "r", "v", "e", "r">>
    /\ kout.info.MapName = <<"m", "p", "_", "n", "u", "k", "e", "t", "o", "w", "n">>
    /\ DOMAIN kout.kv = {Key.hostname, Key.mapname}

----------------------------------------------------------------------------
(* GetDvar (commands.go lines 233-292)                                     *)

maxAttempts == 3

\* lines in one response
MaxRespLines == 2

PollutionToken ==
    <<"s", "v", "_", "i", "w", "4", "m", "a", "d", "m", "i", "n", "_", "i", "n">>

ErrEmptyName == "dvar cannot be empty"
ErrEmptyDvar == "empty dvar response"

\* the index after the longest run of white space that starts at index p
RECURSIVE SkipSpaces(_, _)
SkipSpaces(s, p) == IF p <= Len(s) /\ IsSpace(s[p]) THEN SkipSpaces(s, p + 1) ELSE p

\* where "?(?:\s|$) matches
EndRx1(s, q) ==
    \/ q > Len(s)
    \/ IsSpace(s[q])
    \/ s[q] = QUOTE /\ (q + 1 > Len(s) \/ IsSpace(s[q + 1]))

\* where "?$ matches
EndRx2(s, q) ==
    \/ q > Len(s)
    \/ s[q] = QUOTE /\ q = Len(s)

\* the least index q >= p at which the tail of rx1, or of rx2, matches
RECURSIVE FirstEndRx1(_, _)
FirstEndRx1(s, p) == IF EndRx1(s, p) THEN p ELSE FirstEndRx1(s, p + 1)

RECURSIVE FirstEndRx2(_, _)
FirstEndRx2(s, p) == IF EndRx2(s, p) THEN p ELSE FirstEndRx2(s, p + 1)

\* rx1: (?i)^name\s+is:\s+"?(?P<val>.*?)"?(?:\s|$)  (greedy \s+ and "?, lazy val)
Rx1(name, s) ==
    LET ls == ToLower(s)
        p1 == Len(name) + 1
        p2 == SkipSpaces(s, p1)
        p3 == p2 + 3
        p4 == SkipSpaces(s, p3)
        p5 == IF p4 <= Len(s) /\ s[p4] = QUOTE THEN p4 + 1 ELSE p4
        ok == /\ HasPrefix(ls, ToLower(name))
              /\ p2 > p1
              /\ p3 - 1 <= Len(s)
              /\ SubSeq(ls, p2, p3 - 1) = <<"i", "s", ":">>
              /\ p4 > p3
    IN  [ok |-> ok, val |-> IF ok THEN SubSeq(s, p5, FirstEndRx1(s, p5) - 1) ELSE <<>>]

\* rx2: (?i)^name\s*[:=]\s*"?(?P<val>.*?)"?$
Rx2(name, s) ==
    LET ls == ToLower(s)
        p2 == SkipSpaces(s, Len(name) + 1)
        p4 == SkipSpaces(s, p2 + 1)
        p5 == IF p4 <= Len(s) /\ s[p4] = QUOTE THEN p4 + 1 ELSE p4
        ok == /\ HasPrefix(ls, ToLower(name))
              /\ p2 <= Len(s)
              /\ s[p2] \in {":", "="}
    IN  [ok |-> ok, val |-> IF ok THEN SubSeq(s, p5, FirstEndRx2(s, p5) - 1) ELSE <<>>]

\* the fallback candidate after a line that matched neither pattern and holds
\* no pollution token: only the first such line is kept
KeepLatest(lastClean, clean) == clean
KeepFirst(lastClean, clean) == IF lastClean = <<>> THEN clean ELSE lastClean

\* the scan of one response (lines 250-274): a pattern match ends the call
\* with the captured value, else the fallback candidate is updated
RECURSIVE Scan(_, _, _)
Scan(name, lines, lastClean) ==
    IF lines = <<>> THEN [hit |-> FALSE, val |-> <<>>, lastClean |-> lastClean]
    ELSE LET clean == TrimSpace(stripColorCodes(Head(lines)))
         IN  IF clean = <<>> THEN Scan(name, Tail(lines), lastClean)
             ELSE IF Rx1(name, clean).ok
                  THEN [hit |-> TRUE, val |-> stripColorCodes(Rx1(name, clean).val),
                        lastClean |-> lastClean]
             ELSE IF Rx2(name, clean).ok
                  THEN [hit |-> TRUE, val |-> stripColorCodes(Rx2(name, clean).val),
                        lastClean |-> lastClean]
             ELSE IF ~Contains(ToLower(clean), PollutionToken)
                  THEN Scan(name, Tail(lines), KeepFirst(lastClean, clean))
             ELSE Scan(name, Tail(lines), lastClean)

\* needRetry (lines 275-281)
NeedRetryAlways(lines) == TRUE
NeedRetry(lines) ==
    \E k \in 1..Len(lines) : Contains(ToLower(lines[k]), PollutionToken)

\* the dvar asked for, and the lines a server may answer with: the pollution
\* echo, two unrelated lines (one coloured), the value in the two recognised
\* shapes, and a line of colour codes only
DvarNames == {<<>>, <<"g", "_", "x">>}
DvarLines ==
    { PollutionToken \o <<SP, "1">>,
      <<"^", "1", "h", "e", "l", "l", "o", "^", "7">>,
      <<"b", "y", "e">>,
      <<"G", "_", "x", " ", "i", "s", ":", " ", "\"", "1", "8", "\"">>,
      <<"g", "_", "x", " ", "=", " ", "7">>,
      <<"^", "1">> }

\* SendCommand with requireResponse returns, without error, one or more lines
RECURSIVE SeqsUpTo(_, _)
SeqsUpTo(S, n) ==
    IF n = 0 THEN {<<>>}
    ELSE LET shorter == SeqsUpTo(S, n - 1)
         IN  shorter \cup {Append(q, x) : q \in {r \in shorter : Len(r) = n - 1}, x \in S}
DvarResponses == SeqsUpTo(DvarLines, MaxRespLines) \ {<<>>}

\* the errors SendCommand with requireResponse can fail with
SendErrors == {ErrTimeout, ErrClosed, ErrRefused, ErrNoResponse}

InitDvar ==
    /\ dpc = "idle"
    /\ dname = <<>>
    /\ dloc = [attempt |-> 0, lastClean |-> <<>>]
    /\ dresps = <<>>
    /\ dret = [val |-> <<>>, err |-> Nil]

\* lines 288-291
DvarFinal(lastClean) ==
    /\ dpc' = "done"
    /\ dret' = IF lastClean # <<>> THEN [val |-> lastClean, err |-> Nil]
               ELSE [val |-> <<>>, err |-> ErrEmptyDvar]

\* GetDvar(dvar) is called
DvarCall(name) ==
    /\ dpc = "idle"
    /\ dname' = name
    /\ IF name = <<>>
       THEN dpc' = "done" /\ dret' = [val |-> <<>>, err |-> ErrEmptyName]
       ELSE dpc' = "send" /\ UNCHANGED dret
    /\ UNCHANGED <<dloc, dresps, execVars, normVars, kvVars, setVars, statusVars>>

\* SendCommand fails: GetDvar returns the error
DvarSendFails(err) ==
    /\ dpc = "send"
    /\ dresps' = Append(dresps, [lines |-> <<>>, err |-> err])
    /\ dpc' = "done"
    /\ dret' = [val |-> <<>>, err |-> err]
    /\ UNCHANGED <<dname, dloc, execVars, normVars, kvVars, setVars, statusVars>>

\* SendCommand returns lines: the scan, then return, sleep or break
DvarResponse(lines) ==
    /\ dpc = "send"
    /\ dresps' = Append(dresps, [lines |-> lines, err |-> Nil])
    /\ LET sc == Scan(TrimSpace(dname), lines, dloc.lastClean)
       IN  IF sc.hit
           THEN /\ dpc' = "done"
                /\ dret' = [val |-> sc.val, err |-> Nil]
                /\ UNCHANGED dloc
           ELSE IF NeedRetry(lines)
                THEN /\ dpc' = "sleep"
                     /\ dloc' = [dloc EXCEPT !.lastClean = sc.lastClean]
                     /\ UNCHANGED dret
                ELSE /\ DvarFinal(sc.lastClean)
                     /\ dloc' = [dloc EXCEPT !.lastClean = sc.lastClean]
    /\ UNCHANGED <<dname, execVars, normVars, kvVars, setVars, statusVars>>

\* the backoff sleep ends: attempt++ and the loop test
DvarWake ==
    /\ dpc = "sleep"
    /\ dloc' = [dloc EXCEPT !.attempt = @ + 1]
    /\ IF dloc.attempt + 1 < maxAttempts
       THEN dpc' = "send" /\ UNCHANGED dret
       ELSE DvarFinal(dloc.lastClean)
    /\ UNCHANGED <<dname, dresps, execVars, normVars, kvVars, setVars, statusVars>>

NextDvar ==
    \/ \E name \in DvarNames : DvarCall(name)
    \/ \E err \in SendErrors : DvarSendFails(err)
    \/ \E lines \in DvarResponses : DvarResponse(lines)
    \/ DvarWake

\* the cleaned lines of a response that GetDvar looks at
RECURSIVE CleanLines(_)
CleanLines(lines) ==
    IF lines = <<>> THEN <<>>
    ELSE LET clean == TrimSpace(stripColorCodes(Head(lines)))
         IN  (IF clean = <<>> THEN <<>> ELSE <<clean>>) \o CleanLines(Tail(lines))

RECURSIVE AllCleanLines(_)
AllCleanLines(resps) ==
    IF resps = <<>> THEN <<>>
    ELSE CleanLines(Head(resps).lines) \o AllCleanLines(Tail(resps))

Recognised(cl) == Rx1(TrimSpace(dname), cl).ok \/ Rx2(TrimSpace(dname), cl).ok
NotPolluting(cl) == ~Contains(ToLower(cl), PollutionToken)

\* every attempt so far returned a response with a pollution line and no line
\* that a recognition pattern matches
OnlyPollutedResponses ==
    /\ dresps # <<>>
    /\ \A k \in 1..Len(dresps) :
          /\ dresps[k].err = Nil
          /\ NeedRetry(dresps[k].lines)
    /\ \A k \in 1..Len(AllCleanLines(dresps)) : ~Recognised(AllCleanLines(dresps)[k])

C7_ValueOrError ==
    (dpc = "done" /\ dret.err = Nil) =>
        \E k \in 1..Len(AllCleanLines(dresps)) :
            LET cl == AllCleanLines(dresps)[k]
            IN  \/ Rx1(TrimSpace(dname), cl).ok
                     /\ dret.val = stripColorCodes(Rx1(TrimSpace(dname), cl).val)
                \/ Rx2(TrimSpace(dname), cl).ok
                     /\ dret.val = stripColorCodes(Rx2(TrimSpace(dname), cl).val)

\* C18: GetDvar issues at most 3 commands; a further command follows only a
\* response that held the pollution token and no line a pattern matches; a
\* response with a match ends the call with the value captured from its
\* first matching line, a response without the token ends the attempts, and
\* a failed SendCommand ends the call with its error
C18_DvarAttempts ==
    LET n == Len(dresps)
        Polluted(ls) == \E j \in 1..Len(ls) : Contains(ToLower(ls[j]), PollutionToken)
        Hit(ls) == \E j \in 1..Len(CleanLines(ls)) : Recognised(CleanLines(ls)[j])
        FirstHit(ls) ==
            CleanLines(ls)[CHOOSE j \in 1..Len(CleanLines(ls)) :
                              /\ Recognised(CleanLines(ls)[j])
                              /\ \A i \in 1..(j - 1) : ~Recognised(CleanLines(ls)[i])]
        Captured(cl) ==
            stripColorCodes(IF Rx1(TrimSpace(dname), cl).ok
                            THEN Rx1(TrimSpace(dname), cl).val
                            ELSE Rx2(TrimSpace(dname), cl).val)
    IN  /\ n <= 3
        /\ \A k \in 1..(n - 1) :
              /\ dresps[k].err = Nil
              /\ Polluted(dresps[k].lines)
              /\ ~Hit(dresps[k].lines)
        /\ n > 0 =>
              /\ dresps[n].err # Nil =>
                    dpc = "done" /\ dret = [val |-> <<>>, err |-> dresps[n].err]
              /\ (dresps[n].err = Nil /\ Hit(dresps[n].lines)) =>
                    /\ dpc = "done"
                    /\ dret = [val |-> Captured(FirstHit(dresps[n].lines)), err |-> Nil]
              /\ (dresps[n].err = Nil /\ ~Hit(dresps[n].lines)
                    /\ ~Polluted(dresps[n].lines)) => dpc = "done"
              /\ dpc = "send" =>
                    /\ dresps[n].err = Nil
                    /\ Polluted(dresps[n].lines)
                    /\ ~Hit(dresps[n].lines)

\* the value 18 captured from the second response, after a polluted first one
C18_Witness ==
    /\ dpc = "done"
    /\ Len(dresps) = 2
    /\ dresps[2].err = Nil
    /\ dret = [val |-> <<"1", "8">>, err |-> Nil]

----------------------------------------------------------------------------
(* SetDvar (commands.go lines 217-230) and the request SendCommand builds   *)

\* characters of a value
MaxValueLen == 3

\* what a value is made of: a letter, the three characters that ask for
\* quoting, a backslash and a newline
ValueChars == {"a", SP, TAB, QUOTE, BSL, NL}
SetNames == {<<>>, <<"x">>}

ErrEmptySet == "dvar and value cannot be empty"

\* strings.ContainsAny(s, chars)
ContainsAny(s, chars) == \E k \in 1..Len(s) : s[k] \in chars

\* lines 223-225: fmt.Sprintf("\"%s\"", strings.ReplaceAll(value, "\"", "\\\""))
QuoteValueNoEscape(value) ==
    IF ContainsAny(value, {SP, TAB, QUOTE}) THEN <<QUOTE>> \o value \o <<QUOTE>> ELSE value
QuoteValue(value) ==
    IF ContainsAny(value, {SP, TAB, QUOTE})
    THEN <<QUOTE>> \o ReplaceAll(value, <<QUOTE>>, <<BSL, QUOTE>>) \o <<QUOTE>>
    ELSE value

\* SendCommand lines 29-34: the command and the argument that follow
\* "rcon <password> " in the payload (no argument when args is blank)
RequestOf(cmd, args) ==
    [cmd |-> TrimSpace(cmd), arg |-> TrimSpace(args)]

InitSet ==
    /\ setValue = <<>>
    /\ setOut = [done |-> FALSE, name |-> <<>>, err |-> Nil,
                 req |-> [cmd |-> <<>>, arg |-> <<>>]]

\* the caller's value grows by a character
SetAppend(ch) ==
    /\ ~setOut.done
    /\ Len(setValue) < MaxValueLen
    /\ setValue' = Append(setValue, ch)
    /\ UNCHANGED <<setOut, execVars, normVars, kvVars, dvarVars, statusVars>>

\* SetDvar(name, setValue) up to the packet SendCommand builds
SetDvar(name) ==
    /\ ~setOut.done
    /\ setOut' =
          IF name = <<>> \/ setValue = <<>>
          THEN [done |-> TRUE, name |-> name, err |-> ErrEmptySet,
                req |-> [cmd |-> <<>>, arg |-> <<>>]]
          ELSE [done |-> TRUE, name |-> name, err |-> Nil,
                req |-> RequestOf(<<"s", "e", "t">>,
                                  name \o <<SP>> \o QuoteValue(setValue))]
    /\ UNCHANGED <<setValue, execVars, normVars, kvVars, dvarVars, statusVars>>

NextSet ==
    \/ \E ch \in ValueChars : SetAppend(ch)
    \/ \E name \in SetNames : SetDvar(name)

\* the value as the claim describes it: quoted, every double quote preceded by
\* a backslash, exactly when it holds a space, a tab or a double quote
QuotedAsClaimed(v) ==
    IF \E k \in 1..Len(v) : v[k] = SP \/ v[k] = TAB \/ v[k] = QUOTE
    THEN <<QUOTE>>
         \o Concat([k \in 1..Len(v) |-> IF v[k] = QUOTE THEN <<BSL, QUOTE>> ELSE <<v[k]>>])
         \o <<QUOTE>>
    ELSE v

----------------------------------------------------------------------------
(* Status (commands.go lines 86-184)                                       *)

\* the character classes of the row pattern: \d, \s, \w, [0-9a-fA-F], \S,
\* . (any character but a newline) and the literal -
InClass(ch, cls) ==
    CASE cls = "d" -> ch \in Digits
      [] cls = "s" -> IsSpace(ch)
      [] cls = "w" -> IsAlnum(ch) \/ ch = "_"
      [] cls = "x" -> ch \in Digits \cup {"a", "b", "c", "d", "e", "f",
                                          "A", "B", "C", "D", "E", "F"}
      [] cls = "S" -> ~IsSpace(ch)
      [] cls = "." -> ch # NL
      [] cls = "-" -> ch = "-"

\* the length of the longest run of class cls that starts at index p
RECURSIVE Run(_, _, _)
Run(s, p, cls) ==
    IF p <= Len(s) /\ InClass(s[p], cls) THEN 1 + Run(s, p + 1, cls) ELSE 0

\* the row pattern (lines 118-129) as a sequence of repetitions: a class,
\* the least and the greatest count, lazy or greedy; the ping item is the
\* alternation \d+|LOAD, and (\w+)? followed by \s* is \w* followed by \s*
Rep(cls, min, max, lazy) == [cls |-> cls, min |-> min, max |-> max, lazy |-> lazy, alt |-> FALSE]
Pattern ==
    << Rep("d", 1, 0, FALSE), Rep("s", 1, 0, FALSE),                      \* num
       Rep("-", 0, 1, FALSE), Rep("d", 1, 0, FALSE), Rep("s", 1, 0, FALSE), \* score
       Rep("w", 0, 0, FALSE), Rep("s", 0, 0, FALSE),                      \* bot
       [Rep("d", 1, 0, FALSE) EXCEPT !.alt = TRUE], Rep("s", 1, 0, FALSE), \* ping
       Rep("x", 1, 0, FALSE), Rep("s", 1, 0, FALSE),                      \* guid
       Rep(".", 1, 0, TRUE), Rep("s", 1, 0, FALSE),                       \* name
       Rep("d", 1, 0, FALSE), Rep("s", 1, 0, FALSE),                      \* lastmsg
       Rep("S", 1, 0, FALSE), Rep("s", 1, 0, FALSE),                      \* ipport
       Rep("d", 1, 0, FALSE), Rep("s", 1, 0, FALSE),                      \* qport
       Rep("d", 1, 0, FALSE) >>                                           \* rate

LOAD == <<"L", "O", "A", "D">>
NoMatch == [ok |-> FALSE, lens |-> <<>>]

\* the match a backtracking matcher finds first (the leftmost-first match of
\* Go's regexp): items k.. of Pattern matched from index p on, item k trying
\* its counts from the longest down (greedy) or from the shortest up (lazy),
\* then, for the ping item, the literal LOAD; lens are the items' lengths
RECURSIVE MatchFrom(_, _, _)
RECURSIVE TryCount(_, _, _, _, _)
MatchFrom(s, k, p) ==
    IF k > Len(Pattern) THEN [ok |-> TRUE, lens |-> <<>>]
    ELSE LET it == Pattern[k]
             run == Run(s, p, it.cls)
             most == IF it.max > 0 /\ it.max < run THEN it.max ELSE run
         IN  TryCount(s, k, p, IF it.lazy THEN it.min ELSE most, most)

TryCount(s, k, p, n, most) ==
    LET it == Pattern[k]
    IN  IF n < it.min \/ n > most
        THEN IF it.alt /\ p + 3 <= Len(s) /\ SubSeq(s, p, p + 3) = LOAD
             THEN LET r == MatchFrom(s, k + 1, p + 4)
                  IN  IF r.ok THEN [ok |-> TRUE, lens |-> <<4>> \o r.lens] ELSE NoMatch
             ELSE NoMatch
        ELSE LET r == MatchFrom(s, k + 1, p + n)
             IN  IF r.ok THEN [ok |-> TRUE, lens |-> <<n>> \o r.lens]
                 ELSE TryCount(s, k, p, IF it.lazy THEN n + 1 ELSE n - 1, most)

\* pattern.FindStringSubmatch(line): the match at the leftmost start
RECURSIVE FindSubmatch(_, _)
FindSubmatch(s, p) ==
    IF p > Len(s) THEN NoMatch
    ELSE LET r == MatchFrom(s, 1, p)
         IN  IF r.ok THEN [ok |-> TRUE, at |-> p, lens |-> r.lens]
             ELSE FindSubmatch(s, p + 1)

\* the text items i..j of a match cover
RECURSIVE SumTo(_, _)
SumTo(lens, n) == IF n = 0 THEN 0 ELSE lens[n] + SumTo(lens, n - 1)
Group(s, m, i, j) == SubSeq(s, m.at + SumTo(m.lens, i - 1), m.at + SumTo(m.lens, j) - 1)

\* strings.Cut(s, ":")
CutColon(s) ==
    IF \E i \in 1..Len(s) : s[i] = ":"
    THEN LET i == CHOOSE i \in 1..Len(s) : s[i] = ":" /\ \A j \in 1..(i - 1) : s[j] # ":"
         IN  [before |-> SubSeq(s, 1, i - 1), after |-> SubSeq(s, i + 1, Len(s))]
    ELSE [before |-> s, after |-> <<>>]

\* the Player of a matched row (lines 145-177); Ping, of type any, holds the
\* string of the ping group or its integer value
PlayerOf(line, m) ==
    LET ipport == CutColon(Group(line, m, 16, 16))
        pingStr == Group(line, m, 8, 8)
    IN  [ClientNum |-> atoi(Group(line, m, 1, 1)),
         Name |-> Group(line, m, 12, 12),
         Ping |-> IF pingStr # LOAD
                  THEN [kind |-> "int", str |-> <<>>, int |-> ParseDec(pingStr)]
                  ELSE [kind |-> "string", str |-> pingStr, int |-> 0],
         Score |-> atoi(Group(line, m, 3, 4)),
         IP |-> ipport.before,
         Port |-> ParseDec(ipport.after),
         QPort |-> atoi(Group(line, m, 18, 18)),
         GUID |-> Group(line, m, 10, 10),
         LastMsg |-> atoi(Group(line, m, 14, 14)),
         Rate |-> atoi(Group(line, m, 20, 20))]

\* the loop over the rows (lines 132-180)
RECURSIVE PlayersOf(_)
PlayersOf(lines) ==
    IF lines = <<>> THEN <<>>
    ELSE LET line == TrimSpace(Head(lines))
             m == FindSubmatch(line, 1)
         IN  IF line = <<>> \/ line[1] \notin Digits \/ ~m.ok
             THEN PlayersOf(Tail(lines))
             ELSE <<PlayerOf(line, m)>> \o PlayersOf(Tail(lines))

\* status.Map (lines 94-103): the text after "map:" of the first such line
RECURSIVE MapOf(_)
MapOf(res) ==
    IF res = <<>> THEN <<>>
    ELSE LET line == TrimSpace(Head(res))
         IN  IF HasPrefix(ToLower(line), <<"m", "a", "p", ":">>)
             THEN TrimSpace(Drop(line, 4))
             ELSE MapOf(Tail(res))

\* headerRx (?i)^num\s+score\s+ping on the trimmed line
HeaderRx(line) ==
    LET t == ToLower(TrimSpace(line))
        p2 == SkipSpaces(t, 4)
        p3 == SkipSpaces(t, p2 + 5)
    IN  /\ HasPrefix(t, <<"n", "u", "m">>)
        /\ p2 > 4
        /\ HasPrefix(Drop(t, p2 - 1), <<"s", "c", "o", "r", "e">>)
        /\ p3 > p2 + 5
        /\ HasPrefix(Drop(t, p3 - 1), <<"p", "i", "n", "g">>)

\* res[start:] (lines 105-117): the lines after the first header line, or all
RECURSIVE AfterHeader(_, _)
AfterHeader(res, rest) ==
    IF rest = <<>> THEN res
    ELSE IF HeaderRx(Head(rest)) THEN Tail(rest)
    ELSE AfterHeader(res, Tail(rest))

\* Status from the lines of the response on (RetrievedAt left out)
StatusOf(res) ==
    [Map |-> MapOf(res), Players |-> PlayersOf(AfterHeader(res, res)), Raw |-> res]

\* the tokens a row is made of, field by field: slot, score, bot marker (or
\* none), ping, GUID, name, last-message time, ip:port, query port, rate
RowFields ==
    << {<<"0">>, <<"1", "2">>},
       {<<"0">>, <<"-", "3">>},
       {<<>>, <<"b", "o", "t">>},
       {LOAD, <<"5">>, <<"4", "5">>},
       {<<"a", "b", "c", "1", "2", "3">>, <<"1", "2", "A", "B">>},
       {<<"P", "l", "a", "y", "e", "r", "O", "n", "e">>, <<"a", " ", "b">>},
       {<<"0">>},
       {<<"1", ".", "2", ".", "3", ".", "4", ":", "1", "2", "3", "4">>},
       {<<"5", "6", "7", "8">>},
       {<<"5", "0", "0", "0">>} >>

\* the row as the server prints it: the tokens, single spaces between them
RECURSIVE RowText(_)
RowText(toks) ==
    IF toks = <<>> THEN <<>>
    ELSE IF Head(toks) = <<>> THEN RowText(Tail(toks))
    ELSE IF RowText(Tail(toks)) = <<>> THEN Head(toks)
    ELSE Head(toks) \o <<SP>> \o RowText(Tail(toks))

\* the lines SendCommand returns for "status"
StatusLines ==
    << <<"m", "a", "p", ":", " ", "m", "p", "_", "r", "u", "s", "t">>,
       <<"n", "u", "m", " ", "s", "c", "o", "r", "e", " ", "b", "o", "t", " ", "p", "i", "n", "g", " ", "g", "u", "i", "d", " ", "n", "a", "m", "e", " ", "l", "a", "s", "t", "m", "s", "g", " ", "a", "d", "d", "r", "e", "s", "s", " ", "q", "p", "o", "r", "t", " ", "r", "a", "t", "e">> >>
    \o (IF RowText(rowToks) = <<>> THEN <<>> ELSE <<RowText(rowToks)>>)

InitStatus ==
    /\ rowToks = <<>>
    /\ statusOut = [done |-> FALSE, status |-> StatusOf(<<>>)]

\* the server's row grows by its next field
RowAppend(t) ==
    /\ ~statusOut.done
    /\ Len(rowToks) < Len(RowFields)
    /\ t \in RowFields[Len(rowToks) + 1]
    /\ rowToks' = Append(rowToks, t)
    /\ UNCHANGED <<statusOut, execVars, normVars, kvVars, dvarVars, setVars>>

\* Status() from the returned lines on
Status ==
    /\ ~statusOut.done
    /\ statusOut' = [done |-> TRUE, status |-> StatusOf(StatusLines)]
    /\ UNCHANGED <<rowToks, execVars, normVars, kvVars, dvarVars, setVars>>

NextStatus ==
    \/ \E t \in UNION {RowFields[k] : k \in 1..Len(RowFields)} : RowAppend(t)
    \/ Status

\* C11 as stated: a row in the fixed-field shape, with or without the bot
\* marker, decodes to the Player whose fields are the row's tokens: Ping the
\* string LOAD for that token and else the integer value of the whole ping
\* token
C11_RowDecoded ==
    (statusOut.done /\ Len(rowToks) = Len(RowFields)) =>
        LET t == rowToks
            colon == CHOOSE i \in 1..Len(t[8]) : t[8][i] = ":"
        IN  statusOut.status.Players =
              << [ClientNum |-> ParseDec(t[1]),
                  Name |-> t[6],
                  Ping |-> IF t[4] = LOAD
                           THEN [kind |-> "string", str |-> LOAD, int |-> 0]
                           ELSE [kind |-> "int", str |-> <<>>, int |-> ParseDec(t[4])],
                  Score |-> ParseDec(t[2]),
                  IP |-> SubSeq(t[8], 1, colon - 1),
                  Port |-> ParseDec(SubSeq(t[8], colon + 1, Len(t[8]))),
                  QPort |-> ParseDec(t[9]),
                  GUID |-> t[5],
                  LastMsg |-> ParseDec(t[7]),
                  Rate |-> ParseDec(t[10])] >>


----------------------------------------------------------------------------
(* The specifications                                                      *)

Init == InitExec /\ InitNorm /\ InitKV /\ InitDvar /\ InitSet /\ InitStatus

\* the command executor: callers, the mutex, the socket, the server, the clock
Spec == Init /\ [][Next]_vars

\* normalisation of accumulated buffers
SpecNorm == Init /\ [][NextNorm]_vars

\* key/value block decoding in GetInfo and GetStatus
SpecKV == Init /\ [][NextKV]_vars

\* GetDvar over the outcomes of its SendCommand calls
SpecDvar == Init /\ [][NextDvar]_vars

\* Status over the player rows a server may print
SpecStatus == Init /\ [][NextStatus]_vars

\* SetDvar over the values it may be given
SpecSet == Init /\ [][NextSet]_vars

\* the command executor with one caller, every attempt answered at most once
SpecSolo == Init /\ [][NextSolo]_vars

====
